---- MODULE Spec2Model ----
(***************************************************************************)
(* Model of package dafi (src/pkg/dafi): the flat filter-sequence builder  *)
(* FilterBy / And / Or / AndGroup / OrGroup on Filters and the Criteria    *)
(* methods that delegate to it.                                            *)
(*                                                                         *)
(* A Filters value is a Go slice: a header (backing array, length) over a  *)
(* backing array whose size is the capacity.  The builder methods write    *)
(* through the header (f[len(f)-1].ChainingKey = ..., filters[0].IsGroup-  *)
(* Open = true) and call append, which writes in place when the capacity   *)
(* allows and otherwise copies to a new array.  The heap of backing arrays *)
(* is therefore part of the state, and the caller's variables hold slice   *)
(* headers into it.                                                        *)
(***************************************************************************)
EXTENDS Integers, Sequences, FiniteSets, TLC

\* ------------------------------------------------------------------ bounds
\* Number of calls an unconstrained caller makes (Spec).
MaxCalls == 3
\* Number of calls that build base before it is branched from (SpecBranch).
MaxChain == 3
\* Longest sequence a call may return.
MaxLen == 4
\* Number of fluent calls made on a Criteria (SpecFluent).
MaxFluent == 3
\* Number of SortBy calls that build c before it is branched from (SpecSorts).
MaxSortChain == 3

\* ------------------------------------------------------- program constants
\* The zero value of FilterValue (any): nil.
NilValue == 0
\* FilterChainingKey constants, and the zero value of the string type.
CkAnd == "AND"
CkOr == "OR"
CkNone == ""
\* FilterOperator Equal.
Equal == "eq"

\* The caller's variables holding Filters values (b1 := base.And(...)).
RegOrder == <<"base", "b1", "b2">>
Regs == {RegOrder[i] : i \in 1..Len(RegOrder)}
\* The variables the unconstrained caller of Spec uses.
CallerVars == {"base", "b1"}

\* The caller's variables holding Criteria values (c1 := c.SortBy(...)).
CritOrder == <<"c", "c1", "c2">>
CritVars == {CritOrder[i] : i \in 1..Len(CritOrder)}

\* (field, operator, value) triples the caller passes.
Preds == {<<"x", Equal, 1>>, <<"y", Equal, 2>>, <<"z", Equal, 3>>}

\* The zero value of struct Filter.
ZeroFilter ==
    [Module |-> "", IsGroupOpen |-> FALSE, GroupOpenQty |-> 0,
     Field |-> "", Operator |-> "", Value |-> NilValue,
     IsGroupClose |-> FALSE, GroupCloseQty |-> 0,
     ChainingKey |-> CkNone, OverridePreviousFilterChainingKey |-> CkNone]

\* The composite literal Filter{Field: ..., Operator: ..., Value: ...}.
NewFilter(p) ==
    [ZeroFilter EXCEPT !.Field = p[1], !.Operator = p[2], !.Value = p[3]]

\* Literal argument lists a caller passes to AndGroup / OrGroup:
\* none, one fresh Filter, or two fresh Filters (no chaining key set).
LitBlocks ==
    {<<>>, <<NewFilter(<<"x", Equal, 1>>)>>,
     <<NewFilter(<<"x", Equal, 1>>), NewFilter(<<"y", Equal, 2>>)>>}

\* ------------------------------------------------------------ slices, heap
\* A slice header; arr = 0 is the nil (or empty) slice.
NilSlice == [arr |-> 0, len |-> 0]

Cap(h, s) == IF s.arr = 0 THEN 0 ELSE Len(h[s.arr])

\* The elements a slice header shows: s[0..len).
Elems(h, s) == IF s.arr = 0 THEN <<>> ELSE SubSeq(h[s.arr], 1, s.len)

\* A slice literal: a new backing array holding exactly the elements.
NewArray(h, elems) ==
    [h |-> Append(h, elems), s |-> [arr |-> Len(h) + 1, len |-> Len(elems)]]

\* Capacity append allocates when newLen exceeds the capacity (growslice:
\* newLen if above twice the old capacity, otherwise double; Filter is 128
\* bytes, so the size-class rounding changes nothing below 13 elements).
GrowCap(oldCap, newLen) ==
    IF newLen > 2 * oldCap THEN newLen ELSE 2 * oldCap

Zeros(n) == [i \in 1..n |-> ZeroFilter]

\* append(s, elems...): in place when the capacity allows, else a copy.
SliceAppend(h, s, elems) ==
    LET newLen == s.len + Len(elems) IN
    IF newLen <= Cap(h, s)
    THEN [h |-> [h EXCEPT ![s.arr] =
                    [i \in 1..Len(@) |->
                        IF i > s.len /\ i <= newLen THEN elems[i - s.len] ELSE @[i]]],
          s |-> [arr |-> s.arr, len |-> newLen]]
    ELSE LET c == GrowCap(Cap(h, s), newLen) IN
         [h |-> Append(h, Elems(h, s) \o elems \o Zeros(c - newLen)),
          s |-> [arr |-> Len(h) + 1, len |-> newLen]]

\* f[len(f)-1].ChainingKey = ck
SetLastChainingKey(h, f, ck) ==
    [h EXCEPT ![f.arr][f.len].ChainingKey = ck]

\* Variant: the close marker is written at index 0 instead of the last index.
MarkGroup_CloseAtFirst(h, filters) ==
    [h EXCEPT ![filters.arr][1].IsGroupOpen = TRUE,
              ![filters.arr][1].IsGroupClose = TRUE]

\* Variant: the close counter is raised with the close marker, the open
\* counter is not.
MarkGroup_CountsCloseOnly(h, filters) ==
    LET h1 == [h EXCEPT ![filters.arr][1].IsGroupOpen = TRUE] IN
    [h1 EXCEPT ![filters.arr][filters.len].IsGroupClose = TRUE,
               ![filters.arr][filters.len].GroupCloseQty = @ + 1]

\* filters[0].IsGroupOpen = true; filters[len(filters)-1].IsGroupClose = true
MarkGroup(h, filters) ==
    LET h1 == [h EXCEPT ![filters.arr][1].IsGroupOpen = TRUE] IN
    [h1 EXCEPT ![filters.arr][filters.len].IsGroupClose = TRUE]

\* ------------------------------------------------------- Filters methods
IsZero(f) == f.len = 0

\* Variant: the one-element sequence is allocated with room for a second element.
FilterBy_SpareCapacity(h, p) ==
    [h |-> Append(h, <<NewFilter(p), ZeroFilter>>),
     s |-> [arr |-> Len(h) + 1, len |-> 1]]

FilterBy(h, p) == NewArray(h, <<NewFilter(p)>>)

\* Variant: on an empty receiver the connective is kept on the new token.
FiltersOr_KeepsConnective(h, f, p) ==
    IF IsZero(f)
    THEN NewArray(h, <<[NewFilter(p) EXCEPT !.ChainingKey = CkOr]>>)
    ELSE SliceAppend(SetLastChainingKey(h, f, CkOr), f, <<NewFilter(p)>>)

FiltersOr(h, f, p) ==
    IF IsZero(f)
    THEN NewArray(h, <<NewFilter(p)>>)
    ELSE SliceAppend(SetLastChainingKey(h, f, CkOr), f, <<NewFilter(p)>>)

\* Variant: the connective is stored on the new token, not the preceding one.
FiltersAnd_KeyOnNewToken(h, f, p) ==
    IF IsZero(f)
    THEN NewArray(h, <<NewFilter(p)>>)
    ELSE SliceAppend(h, f, <<[NewFilter(p) EXCEPT !.ChainingKey = CkAnd]>>)

FiltersAnd(h, f, p) ==
    IF IsZero(f)
    THEN NewArray(h, <<NewFilter(p)>>)
    ELSE SliceAppend(SetLastChainingKey(h, f, CkAnd), f, <<NewFilter(p)>>)

\* Variant: the receiver's last connective is written before the check for an
\* empty argument list.
FiltersAndGroup_KeyBeforeCheck(h, f, filters) ==
    LET h1 == IF f.len > 0 THEN SetLastChainingKey(h, f, CkAnd) ELSE h IN
    IF filters.len = 0
    THEN [h |-> h1, s |-> f]
    ELSE LET h2 == MarkGroup(h1, filters)
         IN  SliceAppend(h2, f, Elems(h2, filters))

FiltersAndGroup(h, f, filters) ==
    IF filters.len = 0
    THEN [h |-> h, s |-> f]
    ELSE LET h1 == IF f.len > 0 THEN SetLastChainingKey(h, f, CkAnd) ELSE h
             h2 == MarkGroup(h1, filters)
         IN  SliceAppend(h2, f, Elems(h2, filters))

FiltersOrGroup(h, f, filters) ==
    IF filters.len = 0
    THEN [h |-> h, s |-> f]
    ELSE LET h1 == IF f.len > 0 THEN SetLastChainingKey(h, f, CkOr) ELSE h
             h2 == MarkGroup(h1, filters)
         IN  SliceAppend(h2, f, Elems(h2, filters))

\* ------------------------------------------------- indexing expressions
\* s[i-1] (Go counts from 0) is evaluated without a run-time panic exactly
\* when the index is below len(s); the header's length never exceeds the
\* capacity of its array.
InRange(h, s, i) == 1 <= i /\ i <= s.len /\ s.len <= Cap(h, s)

\* The indexing expressions Or evaluates: f[len(f)-1], only past the
\* IsZero return.
OrIndexes(f) == IF IsZero(f) THEN {} ELSE {<<f, f.len>>}

\* The indexing expressions And evaluates.
AndIndexes(f) == IF IsZero(f) THEN {} ELSE {<<f, f.len>>}

\* Variant: no return on an empty argument list.
AndGroupIndexes_NoEmptyReturn(f, filters) ==
    (IF f.len > 0 THEN {<<f, f.len>>} ELSE {})
        \cup {<<filters, 1>>, <<filters, filters.len>>}

\* The indexing expressions AndGroup evaluates: f[len(f)-1] when len(f) > 0,
\* filters[0] and filters[len(filters)-1], all past the len(filters) == 0
\* return.
AndGroupIndexes(f, filters) ==
    IF filters.len = 0 THEN {}
    ELSE (IF f.len > 0 THEN {<<f, f.len>>} ELSE {})
            \cup {<<filters, 1>>, <<filters, filters.len>>}

\* The indexing expressions OrGroup evaluates.
OrGroupIndexes(f, filters) ==
    IF filters.len = 0 THEN {}
    ELSE (IF f.len > 0 THEN {<<f, f.len>>} ELSE {})
            \cup {<<filters, 1>>, <<filters, filters.len>>}

\* ------------------------------------------------------ Criteria methods
\* Criteria{}: every field at its zero value.
New ==
    [SelectColumns |-> <<>>, Joins |-> <<>>, Filters |-> NilSlice,
     FiltersByModule |-> <<>>, Sorts |-> NilSlice,
     Pagination |-> [PageNumber |-> 0, PageSize |-> 0]]

Where(h, p) ==
    LET r == FilterBy(h, p) IN [h |-> r.h, c |-> [New EXCEPT !.Filters = r.s]]

CriteriaAndGroup(h, c, filters) ==
    LET r == FiltersAndGroup(h, c.Filters, filters)
    IN  [h |-> r.h, c |-> [c EXCEPT !.Filters = r.s]]

CriteriaOrGroup(h, c, filters) ==
    LET r == FiltersOrGroup(h, c.Filters, filters)
    IN  [h |-> r.h, c |-> [c EXCEPT !.Filters = r.s]]

\* Variant: Criteria.Or delegates to Filters.And.
CriteriaOr_DelegatesToAnd(h, c, p) ==
    LET r == FiltersAnd(h, c.Filters, p)
    IN  [h |-> r.h, c |-> [c EXCEPT !.Filters = r.s]]

CriteriaOr(h, c, p) ==
    LET r == FiltersOr(h, c.Filters, p)
    IN  [h |-> r.h, c |-> [c EXCEPT !.Filters = r.s]]

CriteriaAnd(h, c, p) ==
    LET r == FiltersAnd(h, c.Filters, p)
    IN  [h |-> r.h, c |-> [c EXCEPT !.Filters = r.s]]

\* ------------------------------------------------ sorts and pagination
\* SortType constants.
Asc == "ASC"
Desc == "DESC"
None == ""

\* The zero value of struct Sort.
ZeroSort == [Field |-> "", Type |-> None]

SortZeros(n) == [i \in 1..n |-> ZeroSort]

\* append(c.Sorts, Sort{...}) over the heap of Sort arrays: in place when
\* the capacity allows, else a copy (Sort is 32 bytes: the size classes
\* 32, 64, 128, 256 leave the doubled capacities 1, 2, 4, 8 as they are).
SortsAppend(h, s, elems) ==
    LET newLen == s.len + Len(elems) IN
    IF newLen <= Cap(h, s)
    THEN [h |-> [h EXCEPT ![s.arr] =
                    [i \in 1..Len(@) |->
                        IF i > s.len /\ i <= newLen THEN elems[i - s.len] ELSE @[i]]],
          s |-> [arr |-> s.arr, len |-> newLen]]
    ELSE LET c == GrowCap(Cap(h, s), newLen) IN
         [h |-> Append(h, Elems(h, s) \o elems \o SortZeros(c - newLen)),
          s |-> [arr |-> Len(h) + 1, len |-> newLen]]

SortsIsZero(s) == s.len = 0

\* Variant: a Pagination with either field unset counts as zero.
PaginationIsZero_EitherUnset(p) == p.PageNumber = 0 \/ p.PageSize = 0

\* Pagination methods; PageNumber and PageSize are unsigned.
PaginationIsZero(p) == p.PageNumber = 0 /\ p.PageSize = 0

HasPageNumber(p) == p.PageNumber > 0

HasPageSize(p) == p.PageSize > 0

\* Criteria.SortBy; h is the heap of Sort arrays.
SortBy(h, c, field, sortType) ==
    LET r == SortsAppend(h, c.Sorts, <<[Field |-> field, Type |-> sortType]>>)
    IN  [h |-> r.h, c |-> [c EXCEPT !.Sorts = r.s]]

\* Variant: Limit builds a new Pagination holding only the page size.
Limit_ResetsPageNumber(c, value) ==
    [c EXCEPT !.Pagination = [PageNumber |-> 0, PageSize |-> value]]

Limit(c, value) == [c EXCEPT !.Pagination.PageSize = value]

Page(c, value) == [c EXCEPT !.Pagination.PageNumber = value]

\* Variant: the columns are added to the ones already selected.
Select_Accumulates(c, columns) == [c EXCEPT !.SelectColumns = @ \o columns]

\* Criteria.Select: the variadic columns replace SelectColumns.
Select(c, columns) == [c EXCEPT !.SelectColumns = columns]

\* ------------------------------------------------------------------ state
VARIABLES
    heap,    \* the backing arrays: heap[a] is array a, Len(heap[a]) its capacity
    reg,     \* the caller's variables: reg[v] is the slice header v holds
    last,    \* the most recent call: its method and the variable assigned
    scen,    \* progress through base := FilterBy(x); b1 := base.And(y); b2 := base.Or(z),
             \* or through the fluent examples (Select twice; Limit(0) then Page(0))
    ncalls,  \* number of calls made
    crit,    \* the caller's Criteria variables: crit[v] is the Criteria v holds
    sheap    \* the backing arrays of Sorts slices

vars == <<heap, reg, last, scen, ncalls, crit, sheap>>

\* What variable v shows: its elements in order.
Contents(v) == Elems(heap, reg[v])

\* Backing arrays no variable refers to are unreachable (collected); the
\* reachable ones are numbered in the order the variables refer to them.
RECURSIVE LiveIds(_, _, _)
LiveIds(rg, i, acc) ==
    IF i > Len(RegOrder) THEN acc
    ELSE LET a == rg[RegOrder[i]].arr IN
         LiveIds(rg, i + 1,
                 IF a = 0 \/ (\E k \in 1..Len(acc) : acc[k] = a) THEN acc
                 ELSE Append(acc, a))

Collect(h, rg) ==
    LET ids == LiveIds(rg, 1, <<>>)
        idx(a) == CHOOSE k \in 1..Len(ids) : ids[k] = a
    IN  [h |-> [k \in 1..Len(ids) |-> h[ids[k]]],
         rg |-> [v \in Regs |->
                    IF rg[v].arr = 0 THEN rg[v]
                    ELSE [arr |-> idx(rg[v].arr), len |-> rg[v].len]]]

\* The three-statement scenario of the aliasing example.
ScenStep(op, r, d, p) ==
    IF op = "FilterBy" /\ d = "base" /\ p = <<"x", Equal, 1>> THEN 1
    ELSE IF scen = 1 /\ op = "And" /\ r = "base" /\ d = "b1" /\ p = <<"y", Equal, 2>> THEN 2
    ELSE IF scen = 2 /\ op = "Or" /\ r = "base" /\ d = "b2" /\ p = <<"z", Equal, 3>> THEN 3
    ELSE 0

\* d := <call>: the call's heap effects become visible and d holds its result.
Assign(d, res, op, r, p) ==
    /\ res.s.len <= MaxLen
    /\ LET g == Collect(res.h, [reg EXCEPT ![d] = res.s]) IN
          /\ heap' = g.h
          /\ reg' = g.rg
    /\ last' = [op |-> op, dst |-> d]
    /\ scen' = ScenStep(op, r, d, p)
    /\ ncalls' = ncalls + 1
    /\ UNCHANGED <<crit, sheap>>

\* The variadic argument of a group call: literal Filters are passed in a
\* new array; s... passes the caller's slice itself.
GroupArgs ==
    [kind : {"lit"}, blk : LitBlocks, v : {"-"}]
        \cup [kind : {"var"}, blk : {<<>>}, v : Regs]

PassArgs(h, a) ==
    IF a.kind = "lit" THEN NewArray(h, a.blk) ELSE [h |-> h, s |-> reg[a.v]]

Init ==
    /\ heap = <<>>
    /\ reg = [v \in Regs |-> NilSlice]
    /\ last = [op |-> "none", dst |-> "-"]
    /\ scen = 0
    /\ ncalls = 0
    /\ crit = [v \in CritVars |-> New]
    /\ sheap = <<>>

\* d := FilterBy(p)
CallFilterBy(d, p) == Assign(d, FilterBy(heap, p), "FilterBy", "-", p)

\* d := r.Or(p)
CallOr(r, d, p) == Assign(d, FiltersOr(heap, reg[r], p), "Or", r, p)

\* d := r.And(p)
CallAnd(r, d, p) == Assign(d, FiltersAnd(heap, reg[r], p), "And", r, p)

\* d := r.AndGroup(a...)
CallAndGroup(r, d, a) ==
    LET pa == PassArgs(heap, a) IN
    Assign(d, FiltersAndGroup(pa.h, reg[r], pa.s), "AndGroup", r, <<>>)

\* d := r.OrGroup(a...)
CallOrGroup(r, d, a) ==
    LET pa == PassArgs(heap, a) IN
    Assign(d, FiltersOrGroup(pa.h, reg[r], pa.s), "OrGroup", r, <<>>)

\* A Criteria holding the Filters of variable r.
Holding(r) == [New EXCEPT !.Filters = reg[r]]

\* d := Where(p).Filters
CallWhere(d, p) ==
    LET res == Where(heap, p) IN
    Assign(d, [h |-> res.h, s |-> res.c.Filters], "FilterBy", "-", p)

\* d := Criteria{Filters: r}.Or(p).Filters, and likewise for the other methods
CallCriteriaOr(r, d, p) ==
    LET res == CriteriaOr(heap, Holding(r), p) IN
    Assign(d, [h |-> res.h, s |-> res.c.Filters], "Or", r, p)

CallCriteriaAnd(r, d, p) ==
    LET res == CriteriaAnd(heap, Holding(r), p) IN
    Assign(d, [h |-> res.h, s |-> res.c.Filters], "And", r, p)

CallCriteriaAndGroup(r, d, a) ==
    LET pa == PassArgs(heap, a)
        res == CriteriaAndGroup(pa.h, Holding(r), pa.s)
    IN  Assign(d, [h |-> res.h, s |-> res.c.Filters], "AndGroup", r, <<>>)

CallCriteriaOrGroup(r, d, a) ==
    LET pa == PassArgs(heap, a)
        res == CriteriaOrGroup(pa.h, Holding(r), pa.s)
    IN  Assign(d, [h |-> res.h, s |-> res.c.Filters], "OrGroup", r, <<>>)

\* An unconstrained caller: any Filters method on any of its variables,
\* assigned to any of its variables, with literal arguments or its own slices.
More == ncalls < MaxCalls

CallerArgs == {a \in GroupArgs : a.kind = "lit" \/ a.v \in CallerVars}

Next ==
    \/ \E d \in CallerVars, p \in Preds : More /\ CallFilterBy(d, p)
    \/ \E r \in CallerVars, d \in CallerVars, p \in Preds : More /\ CallOr(r, d, p)
    \/ \E r \in CallerVars, d \in CallerVars, p \in Preds : More /\ CallAnd(r, d, p)
    \/ \E r \in CallerVars, d \in CallerVars, a \in CallerArgs :
            More /\ CallAndGroup(r, d, a)
    \/ \E r \in CallerVars, d \in CallerVars, a \in CallerArgs :
            More /\ CallOrGroup(r, d, a)

Spec == Init /\ [][Next]_vars

\* The same caller going through the Criteria methods.
NextCriteria ==
    \/ \E d \in CallerVars, p \in Preds : More /\ CallWhere(d, p)
    \/ \E r \in CallerVars, d \in CallerVars, p \in Preds :
            More /\ CallCriteriaOr(r, d, p)
    \/ \E r \in CallerVars, d \in CallerVars, p \in Preds :
            More /\ CallCriteriaAnd(r, d, p)
    \/ \E r \in CallerVars, d \in CallerVars, a \in CallerArgs :
            More /\ CallCriteriaAndGroup(r, d, a)
    \/ \E r \in CallerVars, d \in CallerVars, a \in CallerArgs :
            More /\ CallCriteriaOrGroup(r, d, a)

SpecCriteria == Init /\ [][NextCriteria]_vars

\* A caller that builds base by chained calls and then branches twice from it:
\*   base := FilterBy(p); base = base.<op>(...) ...;
\*   b1 := base.<op1>(...); b2 := base.<op2>(...)
Seed == last.op = "none" /\ \E p \in Preds : CallFilterBy("base", p)

Chaining == last.dst = "base" /\ ncalls < MaxChain

Chain ==
    \/ \E p \in Preds : Chaining /\ CallOr("base", "base", p)
    \/ \E p \in Preds : Chaining /\ CallAnd("base", "base", p)
    \/ \E a \in GroupArgs : Chaining /\ CallAndGroup("base", "base", a)
    \/ \E a \in GroupArgs : Chaining /\ CallOrGroup("base", "base", a)

Branch(from, to) ==
    \/ \E p \in Preds : last.dst = from /\ CallOr("base", to, p)
    \/ \E p \in Preds : last.dst = from /\ CallAnd("base", to, p)
    \/ \E a \in GroupArgs : last.dst = from /\ CallAndGroup("base", to, a)
    \/ \E a \in GroupArgs : last.dst = from /\ CallOrGroup("base", to, a)

BranchFirst == Branch("base", "b1")

BranchSecond == Branch("b1", "b2")

NextBranch == Seed \/ Chain \/ BranchFirst \/ BranchSecond

SpecBranch == Init /\ [][NextBranch]_vars

\* ------------------------------------------ fluent Criteria construction
\* Arguments of the fluent calls.
FluentPreds == {<<"x", Equal, 1>>, <<"y", Equal, 2>>}

\* Literal Filters passed to Criteria.AndGroup / OrGroup; one names a module.
FluentBlocks ==
    {<<>>, <<[NewFilter(<<"w", Equal, 4>>) EXCEPT !.Module = "m"]>>,
     <<NewFilter(<<"x", Equal, 1>>), NewFilter(<<"y", Equal, 2>>)>>}

SortFields == {"a", "b"}

SortTypes == {Asc, Desc}

\* Values passed to Limit and Page (uint).
PageValues == {0, 2}

\* Column lists passed to Select.
ColumnLists == {<<>>, <<"a", "b">>, <<"c">>}

\* Every Criteria variable v is paired with a Filters variable Mirror(v) on
\* which the caller makes the same builder calls directly.
Pos(v) == CHOOSE i \in 1..Len(CritOrder) : CritOrder[i] = v

Mirror(v) == RegOrder[Pos(v)]

\* Unreachable backing arrays are collected and the reachable ones numbered
\* in the order the headers hdrs refer to them.
RECURSIVE LiveArrays(_, _, _)
LiveArrays(hdrs, i, acc) ==
    IF i > Len(hdrs) THEN acc
    ELSE LET a == hdrs[i].arr IN
         LiveArrays(hdrs, i + 1,
                    IF a = 0 \/ (\E k \in 1..Len(acc) : acc[k] = a) THEN acc
                    ELSE Append(acc, a))

Compact(h, hdrs) ==
    LET ids == LiveArrays(hdrs, 1, <<>>)
        idx(a) == CHOOSE k \in 1..Len(ids) : ids[k] = a
    IN  [h |-> [k \in 1..Len(ids) |-> h[ids[k]]],
         at |-> [i \in 1..Len(hdrs) |->
                    IF hdrs[i].arr = 0 THEN hdrs[i]
                    ELSE [arr |-> idx(hdrs[i].arr), len |-> hdrs[i].len]]]

\* d := <Criteria call>; Mirror(d) := <the same call on Filters>.
\* c is the Criteria returned, m the Filters returned, h and sh the heaps
\* after both calls, sc the progress through New().Select("a","b").Select("c")
\* (1, 2) or through c.Limit(0).Page(0) (3, 4).
FluentAssign(d, c, h, sh, m, op, sc) ==
    LET n  == Len(CritOrder)
        cr == [crit EXCEPT ![d] = c]
        rg == [reg EXCEPT ![Mirror(d)] = m]
        gf == Compact(h, [i \in 1..(2 * n) |->
                            IF i <= n THEN rg[RegOrder[i]]
                            ELSE cr[CritOrder[i - n]].Filters])
        gs == Compact(sh, [i \in 1..n |-> cr[CritOrder[i]].Sorts])
    IN  /\ heap' = gf.h
        /\ reg' = [v \in Regs |->
                     gf.at[CHOOSE i \in 1..n : RegOrder[i] = v]]
        /\ sheap' = gs.h
        /\ crit' = [v \in CritVars |->
                      [cr[v] EXCEPT !.Filters = gf.at[n + Pos(v)],
                                    !.Sorts = gs.at[Pos(v)]]]
        /\ last' = [op |-> op, dst |-> d]
        /\ ncalls' = ncalls + 1
        /\ scen' = sc

\* d := Where(p)
FluentWhere(d, p) ==
    LET res == Where(heap, p)
        m   == FilterBy(res.h, p)
    IN  FluentAssign(d, res.c, m.h, sheap, m.s, "Where", 0)

\* d := r.And(p)
FluentAnd(r, d, p) ==
    LET res == CriteriaAnd(heap, crit[r], p)
        m   == FiltersAnd(res.h, reg[Mirror(r)], p)
    IN  FluentAssign(d, res.c, m.h, sheap, m.s, "And", 0)

\* d := r.Or(p)
FluentOr(r, d, p) ==
    LET res == CriteriaOr(heap, crit[r], p)
        m   == FiltersOr(res.h, reg[Mirror(r)], p)
    IN  FluentAssign(d, res.c, m.h, sheap, m.s, "Or", 0)

\* d := r.AndGroup(blk...) with literal Filters
FluentAndGroup(r, d, blk) ==
    LET pa  == NewArray(heap, blk)
        res == CriteriaAndGroup(pa.h, crit[r], pa.s)
        pm  == NewArray(res.h, blk)
        m   == FiltersAndGroup(pm.h, reg[Mirror(r)], pm.s)
    IN  FluentAssign(d, res.c, m.h, sheap, m.s, "AndGroup", 0)

\* d := r.OrGroup(blk...) with literal Filters
FluentOrGroup(r, d, blk) ==
    LET pa  == NewArray(heap, blk)
        res == CriteriaOrGroup(pa.h, crit[r], pa.s)
        pm  == NewArray(res.h, blk)
        m   == FiltersOrGroup(pm.h, reg[Mirror(r)], pm.s)
    IN  FluentAssign(d, res.c, m.h, sheap, m.s, "OrGroup", 0)

\* d := r.SortBy(field, sortType)
FluentSortBy(r, d, field, sortType) ==
    LET res == SortBy(sheap, crit[r], field, sortType)
    IN  FluentAssign(d, res.c, heap, res.h, reg[Mirror(r)], "SortBy", 0)

\* d := r.Limit(value)
FluentLimit(r, d, value) ==
    FluentAssign(d, Limit(crit[r], value), heap, sheap, reg[Mirror(r)], "Limit",
                 IF value = 0 THEN 3 ELSE 0)

\* d := r.Page(value)
FluentPage(r, d, value) ==
    FluentAssign(d, Page(crit[r], value), heap, sheap, reg[Mirror(r)], "Page",
                 IF scen = 3 /\ value = 0 THEN 4 ELSE 0)

\* d := r.Select(columns...)
FluentSelect(r, d, columns) ==
    FluentAssign(d, Select(crit[r], columns), heap, sheap, reg[Mirror(r)], "Select",
                 IF ncalls = 0 /\ columns = <<"a", "b">> THEN 1
                 ELSE IF scen = 1 /\ columns = <<"c">> THEN 2 ELSE 0)

\* A caller chaining fluent calls on one Criteria: c = Where(...) or
\* c = c.<method>(...), starting from the zero Criteria New() returns.
FluentMore == ncalls < MaxFluent

NextFluent ==
    \/ \E p \in FluentPreds : FluentMore /\ FluentWhere("c", p)
    \/ \E p \in FluentPreds : FluentMore /\ FluentAnd("c", "c", p)
    \/ \E p \in FluentPreds : FluentMore /\ FluentOr("c", "c", p)
    \/ \E blk \in FluentBlocks : FluentMore /\ FluentAndGroup("c", "c", blk)
    \/ \E blk \in FluentBlocks : FluentMore /\ FluentOrGroup("c", "c", blk)
    \/ \E f \in SortFields, t \in SortTypes : FluentMore /\ FluentSortBy("c", "c", f, t)
    \/ \E n \in PageValues : FluentMore /\ FluentLimit("c", "c", n)
    \/ \E n \in PageValues : FluentMore /\ FluentPage("c", "c", n)
    \/ \E cols \in ColumnLists : FluentMore /\ FluentSelect("c", "c", cols)

SpecFluent == Init /\ [][NextFluent]_vars

\* A caller that builds c by chained SortBy calls and then derives other
\* criteria from it:
\*   c := New(); c = c.SortBy(...) ...;
\*   c1 := c.SortBy(...); c2 := c.SortBy(...) or c = c.SortBy(...)
SortChain ==
    /\ last.dst \in {"-", "c"}
    /\ ncalls < MaxSortChain
    /\ \E f \in SortFields, t \in SortTypes : FluentSortBy("c", "c", f, t)

\* Two more calls are made once c is built.
Deriving == ncalls < MaxSortChain + 2

SortBranchFirst ==
    /\ last.dst \in {"-", "c"}
    /\ Deriving
    /\ \E f \in SortFields, t \in SortTypes : FluentSortBy("c", "c1", f, t)

SortBranchSecond ==
    /\ last.dst = "c1"
    /\ Deriving
    /\ \E f \in SortFields, t \in SortTypes : FluentSortBy("c", "c2", f, t)

SortReceiverAgain ==
    /\ last.dst = "c1"
    /\ Deriving
    /\ \E f \in SortFields, t \in SortTypes : FluentSortBy("c", "c", f, t)

NextSorts == SortChain \/ SortBranchFirst \/ SortBranchSecond \/ SortReceiverAgain

SpecSorts == Init /\ [][NextSorts]_vars

\* ------------------------------------------------------------- properties
\* A call whose arguments are all fresh: a (field, operator, value) triple or
\* literal Filters, so that nothing the caller holds is passed in.
FreshCall(r, d) ==
    /\ last'.dst = d
    /\ \/ \E p \in Preds : CallOr(r, d, p) \/ CallAnd(r, d, p)
       \/ \E a \in GroupArgs :
             a.kind = "lit" /\ (CallAndGroup(r, d, a) \/ CallOrGroup(r, d, a))

\* C1: branching is safe for every base: after b1 := base.<op1>(...) has
\* appended to base, a following b2 := base.<op2>(...) leaves b1 with exactly
\* the contents it had when it was returned (stated here for an op2 given
\* only fresh arguments).
C1_BranchIsolated ==
    [][(/\ last.dst = "b1"
        /\ Len(Contents("b1")) > Len(Contents("base"))
        /\ FreshCall("base", "b2"))
          => Contents("b1")' = Contents("b1")]_vars

\* C2: base := FilterBy("x", Equal, 1); b1 := base.And("y", Equal, 2);
\* b2 := base.Or("z", Equal, 3): afterwards b1 has length 2, b1[0] is chained
\* by AND and b1[1] is y; b2 has length 2, b2[0] is chained by OR and b2[1] is z.
C2_AliasingExample ==
    scen = 3 =>
        /\ Len(Contents("b1")) = 2
        /\ Contents("b1")[1].ChainingKey = CkAnd
        /\ Contents("b1")[2].Field = "y"
        /\ Len(Contents("b2")) = 2
        /\ Contents("b2")[1].ChainingKey = CkOr
        /\ Contents("b2")[2].Field = "z"

C2_Witness ==
    scen = 3 /\ last = [op |-> "Or", dst |-> "b2"] /\ Len(Contents("base")) = 1

\* C3: every builder method is a pure value transform: after d := r.<op>(...)
\* on a non-empty r, the receiver r still held by the caller has exactly the
\* contents it had before the call (stated here for calls given only fresh
\* arguments).
C3_ReceiverUnchanged ==
    [][\A r \in Regs, d \in Regs :
          (d # r /\ Len(Contents(r)) > 0 /\ FreshCall(r, d))
             => Contents(r)' = Contents(r)]_vars

\* Opens minus closes over the first i tokens, by the boolean markers.
FlagBalance(s, i) ==
    Cardinality({j \in 1..i : s[j].IsGroupOpen})
        - Cardinality({j \in 1..i : s[j].IsGroupClose})

\* The open of token i applies before it and its close after it, so the
\* balance is read after each token.
FlagsBalanced(s) ==
    /\ \A i \in 1..Len(s) : FlagBalance(s, i) >= 0
    /\ FlagBalance(s, Len(s)) = 0

\* C4: group markers are balanced in every sequence built solely through the
\* builder methods: scanning left to right, opens minus closes never goes
\* negative and ends at zero.
C4_FlagsBalanced == \A v \in Regs : FlagsBalanced(Contents(v))

RECURSIVE SumOpenQty(_, _)
SumOpenQty(s, i) == IF i = 0 THEN 0 ELSE SumOpenQty(s, i - 1) + s[i].GroupOpenQty

RECURSIVE SumCloseQty(_, _)
SumCloseQty(s, i) == IF i = 0 THEN 0 ELSE SumCloseQty(s, i - 1) + s[i].GroupCloseQty

QtyBalanced(s) ==
    /\ SumOpenQty(s, Len(s)) = SumCloseQty(s, Len(s))
    /\ \A i \in 1..Len(s) : SumOpenQty(s, i) - SumCloseQty(s, i) >= 0

\* C5: group balance of the quantity counters: in every sequence built by the
\* builder methods from filters whose counters start at zero, the sum of
\* GroupOpenQty equals the sum of GroupCloseQty and the running balance never
\* goes negative.
C5_QtyBalanced == \A v \in Regs : QtyBalanced(Contents(v))

C5_Witness ==
    /\ last.op \in {"AndGroup", "OrGroup"}
    /\ Len(Contents(last.dst)) >= 3
    /\ \E i \in 2..Len(Contents(last.dst)) : Contents(last.dst)[i].IsGroupOpen
    /\ Contents(last.dst)[Len(Contents(last.dst))].IsGroupClose

\* C6: the quantity counters record nesting depth: every token with
\* IsGroupOpen has GroupOpenQty >= 1 and every token with IsGroupClose has
\* GroupCloseQty >= 1.
C6_QtyCountsMarkers ==
    \A v \in Regs : \A i \in 1..Len(Contents(v)) :
        /\ Contents(v)[i].IsGroupOpen => Contents(v)[i].GroupOpenQty >= 1
        /\ Contents(v)[i].IsGroupClose => Contents(v)[i].GroupCloseQty >= 1

\* C7: chaining-key completeness: in every sequence of length n >= 2 built
\* through the builder methods, every element at index 0..n-2 has ChainingKey
\* AND or OR.
C7_ChainingComplete ==
    \A v \in Regs : \A i \in 1..(Len(Contents(v)) - 1) :
        Contents(v)[i].ChainingKey \in {CkAnd, CkOr}

\* The filters a group call is given, as they are when the call is made.
ArgElems(a) == IF a.kind = "lit" THEN a.blk ELSE Contents(a.v)

\* A block with its first filter marked open and its last marked close.
Marked(blk) ==
    [i \in 1..Len(blk) |->
        [blk[i] EXCEPT !.IsGroupOpen = @ \/ i = 1,
                       !.IsGroupClose = @ \/ i = Len(blk)]]

SamePredicate(x, y) ==
    /\ x.Module = y.Module
    /\ x.Field = y.Field
    /\ x.Operator = y.Operator
    /\ x.Value = y.Value

\* What C8 says of res, the result of a group call with connective ck on a
\* receiver showing recv, given the block blk (shared: blk is a slice of the
\* receiver's own backing array).
Wrapped(res, recv, blk, ck, shared) ==
    LET n == Len(recv)
        k == Len(blk)
    IN  /\ Len(res) = n + k
        /\ n > 0 => res[n].ChainingKey = ck
        /\ res[n + 1].IsGroupOpen
        /\ res[n + k].IsGroupClose
        /\ \A i \in 1..k : SamePredicate(res[n + i], blk[i])
        /\ ~shared => SubSeq(res, n + 1, n + k) = Marked(blk)
        /\ n = 0 => res = Marked(blk)

\* C8: group wrapping: on a receiver of length n, AndGroup (OrGroup) with
\* k >= 1 filters returns n+k elements; element n-1 is chained by AND (OR),
\* element n is marked open, element n+k-1 is marked close, elements n..n+k-1
\* are the supplied filters in order; on an empty receiver the result is just
\* the marked block.
C8_GroupWrapping ==
    [][\A r \in Regs, d \in Regs, a \in GroupArgs :
          LET shared == a.kind = "var" /\ reg[a.v].arr = reg[r].arr IN
          /\ (/\ last' = [op |-> "AndGroup", dst |-> d]
              /\ Len(ArgElems(a)) >= 1
              /\ CallAndGroup(r, d, a))
                => Wrapped(Contents(d)', Contents(r), ArgElems(a), CkAnd, shared)
          /\ (/\ last' = [op |-> "OrGroup", dst |-> d]
              /\ Len(ArgElems(a)) >= 1
              /\ CallOrGroup(r, d, a))
                => Wrapped(Contents(d)', Contents(r), ArgElems(a), CkOr, shared)]_vars

C8_Witness ==
    /\ last.op = "AndGroup"
    /\ \E i \in 2..(Len(Contents(last.dst)) - 1) :
          /\ Contents(last.dst)[i - 1].ChainingKey = CkAnd
          /\ Contents(last.dst)[i].IsGroupOpen
          /\ ~Contents(last.dst)[i].IsGroupClose
    /\ Contents(last.dst)[Len(Contents(last.dst))].IsGroupClose

\* What C9 says of res, the result of And / Or with connective ck and triple
\* p on a receiver showing recv.
Chained(res, recv, p, ck) ==
    LET n == Len(recv) IN
    /\ Len(res) = n + 1
    /\ res[n].ChainingKey = ck
    /\ res[n + 1].Field = p[1]
    /\ res[n + 1].Operator = p[2]
    /\ res[n + 1].Value = p[3]
    /\ ~res[n + 1].IsGroupOpen
    /\ ~res[n + 1].IsGroupClose
    /\ res[n + 1].ChainingKey = CkNone

\* C9: chaining placement: on a non-empty receiver of length n, And (Or)
\* returns n+1 elements; element n-1 is chained by AND (OR) and element n is
\* the given predicate with no group markers and an empty ChainingKey.
C9_ChainingPlacement ==
    [][\A r \in Regs, d \in Regs, p \in Preds :
          /\ (/\ last' = [op |-> "And", dst |-> d]
              /\ Len(Contents(r)) > 0
              /\ CallAnd(r, d, p))
                => Chained(Contents(d)', Contents(r), p, CkAnd)
          /\ (/\ last' = [op |-> "Or", dst |-> d]
              /\ Len(Contents(r)) > 0
              /\ CallOr(r, d, p))
                => Chained(Contents(d)', Contents(r), p, CkOr)]_vars

C9_Witness ==
    /\ last.op = "And"
    /\ Len(Contents(last.dst)) >= 3
    /\ Cap(heap, reg[last.dst]) > Len(Contents(last.dst))

\* C10: empty-receiver degradation: And or Or on an empty Filters returns a
\* one-element sequence equal to FilterBy of the same triple; the connective
\* is in no field of the result.
C10_EmptyReceiver ==
    [][\A r \in Regs, d \in Regs, p \in Preds :
          (/\ last'.dst = d
           /\ last'.op \in {"And", "Or"}
           /\ Len(Contents(r)) = 0
           /\ (CallAnd(r, d, p) \/ CallOr(r, d, p)))
             => /\ Contents(d)' = Elems(FilterBy(heap, p).h, FilterBy(heap, p).s)
                /\ Len(Contents(d)') = 1
                /\ Contents(d)'[1].ChainingKey = CkNone
                /\ Contents(d)'[1].OverridePreviousFilterChainingKey = CkNone]_vars

C10_Witness ==
    /\ last.op = "Or"
    /\ Len(Contents(last.dst)) = 1
    /\ \E v \in Regs : v # last.dst /\ Len(Contents(v)) >= 2

\* C11: a group call with no supplied filters (no arguments, or an empty
\* slice passed with ...) returns a sequence with the receiver's length and
\* contents, and writes nothing: the receiver's last ChainingKey and every
\* other variable's contents are as before the call.
C11_ZeroGroupNoOp ==
    [][\A r \in Regs, d \in Regs, a \in GroupArgs :
          (/\ last'.dst = d
           /\ last'.op \in {"AndGroup", "OrGroup"}
           /\ Len(ArgElems(a)) = 0
           /\ \/ last'.op = "AndGroup" /\ CallAndGroup(r, d, a)
              \/ last'.op = "OrGroup" /\ CallOrGroup(r, d, a))
             => /\ Contents(d)' = Contents(r)
                /\ \A v \in Regs \ {d} : Contents(v)' = Contents(v)]_vars

\* A group call has just returned a non-empty sequence whose last token is
\* not a group close: nothing was appended, the receiver was not empty, and
\* its last token still has no connective.
C11_Witness ==
    /\ last.op \in {"AndGroup", "OrGroup"}
    /\ LET s == Contents(last.dst) IN
          /\ Len(s) >= 2
          /\ ~s[Len(s)].IsGroupClose
          /\ s[Len(s)].ChainingKey = CkNone

\* C12: the builder operations are total.  In every state of a construction
\* sequence every variable holds a well-formed slice (length within the
\* capacity of its array), and for every receiver (nil, empty or not) and
\* every argument (predicate, no filters, one or many filters, literal or a
\* slice of the caller) every indexing expression And, Or, AndGroup and
\* OrGroup would evaluate is in range, so the call returns a value.
C12_BuilderTotal ==
    /\ \A v \in Regs :
          /\ reg[v].arr \in 0..Len(heap)
          /\ reg[v].len <= Cap(heap, reg[v])
    /\ \A r \in Regs :
          \A x \in OrIndexes(reg[r]) \cup AndIndexes(reg[r]) :
              InRange(heap, x[1], x[2])
    /\ \A r \in Regs, a \in GroupArgs :
          LET pa == PassArgs(heap, a) IN
          \A x \in AndGroupIndexes(reg[r], pa.s) \cup OrGroupIndexes(reg[r], pa.s) :
              InRange(pa.h, x[1], x[2])

\* After three calls, the last a group call, the caller holds a nil
\* variable and a sequence of three or more tokens: the next call can have
\* a nil or a non-empty receiver and no, one or many supplied filters.
C12_Witness ==
    /\ ncalls = 3
    /\ last.op \in {"AndGroup", "OrGroup"}
    /\ \E v \in Regs, w \in Regs :
          /\ reg[v] = NilSlice
          /\ reg[w].len >= 3
          /\ reg[w].len < Cap(heap, reg[w])

\* C13: Select replaces the selected columns, whatever they were: after
\* c = c.Select(B...) SelectColumns is B; New().Select("a","b").Select("c")
\* has SelectColumns <<"c">>; and Select(B...) on a Criteria whose columns
\* are already B returns an equal Criteria.
C13_SelectReplaces ==
    [][\A cols \in ColumnLists :
          (last'.op = "Select" /\ FluentSelect("c", "c", cols))
             => /\ crit'["c"].SelectColumns = cols
                /\ scen' = 2 => crit'["c"].SelectColumns = <<"c">>
                /\ crit["c"].SelectColumns = cols
                      => crit'["c"] = crit["c"] /\ heap' = heap /\ sheap' = sheap
                /\ Select(Select(crit["c"], cols), cols) = Select(crit["c"], cols)]_vars

\* New().Select("a", "b").Select("c") has just returned.
C13_Witness ==
    /\ scen = 2
    /\ last.op = "Select"
    /\ ncalls = 2
    /\ crit["c"].SelectColumns = <<"c">>

\* What the three Pagination methods report on p, against its fields.
Reports(p) ==
    /\ PaginationIsZero(p) <=> (p.PageNumber = 0 /\ p.PageSize = 0)
    /\ HasPageNumber(p) <=> p.PageNumber > 0
    /\ HasPageSize(p) <=> p.PageSize > 0
    /\ PaginationIsZero(p) <=> (~HasPageNumber(p) /\ ~HasPageSize(p))

Unset(p) == PaginationIsZero(p) /\ ~HasPageNumber(p) /\ ~HasPageSize(p)

\* C14: IsZero is true exactly when both fields are 0, HasPageNumber exactly
\* when PageNumber > 0 and HasPageSize exactly when PageSize > 0, for every
\* Pagination value and for the Pagination of every Criteria built; the zero
\* value, New().Pagination and a Criteria on which Limit(0) and Page(0) were
\* called report IsZero and neither HasPageNumber nor HasPageSize.
C14_PaginationUnset ==
    /\ \A n \in PageValues, z \in PageValues :
          Reports([PageNumber |-> n, PageSize |-> z])
    /\ Reports(crit["c"].Pagination)
    /\ Unset([PageNumber |-> 0, PageSize |-> 0])
    /\ Unset(New.Pagination)
    /\ ncalls = 0 => Unset(crit["c"].Pagination)
    /\ scen = 4 => Unset(crit["c"].Pagination)
    /\ Unset(Page(Limit(crit["c"], 0), 0).Pagination)

\* Limit(0) and then Page(0) were the second and third call made on a
\* Criteria.
C14_Witness ==
    /\ scen = 4
    /\ ncalls = 3
    /\ last.op = "Page"
    /\ Unset(crit["c"].Pagination)

\* C15: after any sequence of Where / And / Or / AndGroup / OrGroup calls on
\* a Criteria, interleaved with SortBy / Limit / Page / Select calls, its
\* Filters equal, element by element, the Filters built by the same
\* FilterBy / And / Or / AndGroup / OrGroup calls made on a Filters value
\* directly.
C15_CriteriaMirrorsFilters ==
    \A v \in CritVars :
        /\ crit[v].Filters.len = reg[Mirror(v)].len
        /\ Elems(heap, crit[v].Filters) = Contents(Mirror(v))

\* Three calls built a Criteria with three or more filter tokens, a
\* connective among them and a sort instruction; its Filters and the Filters
\* built directly are in different arrays.
C15_Witness ==
    /\ ncalls = 3
    /\ crit["c"].Filters.len >= 3
    /\ crit["c"].Sorts.len >= 1
    /\ crit["c"].Filters.arr # reg[Mirror("c")].arr
    /\ Contents(Mirror("c"))[1].ChainingKey = CkOr
    /\ Elems(heap, crit["c"].Filters) = Contents(Mirror("c"))

\* The Criteria fields other than those in flds are the same in a and b.
SameBut(a, b, flds) == \A k \in (DOMAIN a) \ flds : a[k] = b[k]

\* What the Criteria in variable v shows of its slices.
FiltersOf(v) == Elems(heap, crit[v].Filters)

SortsOf(v) == Elems(sheap, crit[v].Sorts)

\* C16: each Criteria method changes only the field it targets.  And, Or,
\* AndGroup and OrGroup change only Filters; SortBy only Sorts; Limit only
\* Pagination.PageSize; Page only Pagination.PageNumber; Select only
\* SelectColumns.  So in every Criteria built from New() or Where(...)
\* Joins is empty, FiltersByModule is empty, and every Filter has the Module
\* its caller supplied.
C16_MethodFrames ==
    [][/\ (/\ last'.op \in {"And", "Or", "AndGroup", "OrGroup"}
            /\ \/ \E p \in FluentPreds : FluentAnd("c", "c", p) \/ FluentOr("c", "c", p)
               \/ \E blk \in FluentBlocks :
                     FluentAndGroup("c", "c", blk) \/ FluentOrGroup("c", "c", blk))
              => /\ SameBut(crit'["c"], crit["c"], {"Filters"})
                 /\ SortsOf("c")' = SortsOf("c")
       /\ (/\ last'.op = "SortBy"
            /\ \E f \in SortFields, t \in SortTypes : FluentSortBy("c", "c", f, t))
              => /\ SameBut(crit'["c"], crit["c"], {"Sorts"})
                 /\ FiltersOf("c")' = FiltersOf("c")
       /\ (/\ last'.op = "Limit"
            /\ \E n \in PageValues : FluentLimit("c", "c", n))
              => /\ SameBut(crit'["c"], crit["c"], {"Pagination"})
                 /\ crit'["c"].Pagination.PageNumber = crit["c"].Pagination.PageNumber
                 /\ FiltersOf("c")' = FiltersOf("c") /\ SortsOf("c")' = SortsOf("c")
       /\ (/\ last'.op = "Page"
            /\ \E n \in PageValues : FluentPage("c", "c", n))
              => /\ SameBut(crit'["c"], crit["c"], {"Pagination"})
                 /\ crit'["c"].Pagination.PageSize = crit["c"].Pagination.PageSize
                 /\ FiltersOf("c")' = FiltersOf("c") /\ SortsOf("c")' = SortsOf("c")
       /\ (/\ last'.op = "Select"
            /\ \E cols \in ColumnLists : FluentSelect("c", "c", cols))
              => /\ SameBut(crit'["c"], crit["c"], {"SelectColumns"})
                 /\ FiltersOf("c")' = FiltersOf("c") /\ SortsOf("c")' = SortsOf("c")
       /\ crit'["c"].Joins = <<>>
       /\ crit'["c"].FiltersByModule = <<>>
       /\ \A i \in 1..Len(FiltersOf("c")') :
             FiltersOf("c")'[i].Module
                 = IF FiltersOf("c")'[i].Field = "w" THEN "m" ELSE ""]_vars

\* Limit has just returned a Criteria that keeps a page number, a sort
\* instruction set before it.
C16_Witness ==
    /\ last.op = "Limit"
    /\ crit["c"].Pagination.PageNumber > 0
    /\ crit["c"].Sorts.len >= 1

\* C17: c2 := c.SortBy(f, t) returns the Sorts of c followed by (f, t), and
\* the Sorts of every other Criteria the caller holds keep their content
\* through any later SortBy call on c: two criteria branched from the same c
\* each end with their own instruction.
C17_SortByStable ==
    [][\A r \in CritVars, d \in CritVars, f \in SortFields, t \in SortTypes :
          (/\ last' = [op |-> "SortBy", dst |-> d]
           /\ FluentSortBy(r, d, f, t))
             => /\ SortsOf(d)' = Append(SortsOf(r), [Field |-> f, Type |-> t])
                /\ \A v \in CritVars \ {d} : SortsOf(v)' = SortsOf(v)]_vars

\* Token x is token y in every field but the connective.
SameButChainingKey(x, y) == [x EXCEPT !.ChainingKey = y.ChainingKey] = y

\* res has the tokens of recv as a prefix, in order, unchanged except for
\* the connective of the last one, and no token of res has
\* OverridePreviousFilterChainingKey set.
Extends(res, recv) ==
    /\ Len(res) >= Len(recv)
    /\ \A i \in 1..Len(recv) :
          /\ SameButChainingKey(res[i], recv[i])
          /\ i < Len(recv) => res[i] = recv[i]
    /\ \A i \in 1..Len(res) : res[i].OverridePreviousFilterChainingKey = CkNone

\* C18: the value a builder operation returns has the receiver's tokens as
\* a prefix, in their order, with every field but the last token's
\* ChainingKey as it was before the call; OverridePreviousFilterChainingKey
\* is never set.
C18_AppendOnly ==
    [][\A r \in Regs, d \in Regs :
          (/\ last'.dst = d
           /\ \/ \E p \in Preds : CallOr(r, d, p) \/ CallAnd(r, d, p)
              \/ \E a \in GroupArgs : CallAndGroup(r, d, a) \/ CallOrGroup(r, d, a))
             => Extends(Contents(d)', Contents(r))]_vars

====
